---- MODULE Spec2Model ----
(***************************************************************************)
(* RC6 block cipher (src/includes/rc6.hpp, src/src/rc6.cpp).               *)
(*                                                                         *)
(* A uint32_t is modelled as the pair <<lo, hi>> of its 16-bit halves      *)
(* (value = lo + 65536 * hi), because the 32-bit products and sums of the  *)
(* cipher do not fit the integers of the model checker.  Every operator    *)
(* below computes the C++ operation modulo 2^32 on that representation.    *)
(***************************************************************************)
EXTENDS Integers, Sequences, FiniteSets, TLC

\* ------------------------------------------------------------------------
\* 32-bit unsigned arithmetic (uint32_t), 16-bit halves
\* ------------------------------------------------------------------------

\* 2^16: the radix of the two halves of a uint32_t
H == 65536

\* the uint32_t of a small non-negative literal
U32(n) == <<n % H, (n \div H) % H>>

Zero32 == <<0, 0>>

Pow2(n) == 2 ^ n

\* uint32_t + uint32_t, wrapping
Add32(x, y) ==
    LET lo == x[1] + y[1]
        hi == x[2] + y[2] + (lo \div H)
    IN  <<lo % H, hi % H>>

\* uint32_t - uint32_t, wrapping
Sub32(x, y) ==
    LET lo == x[1] - y[1] + H
        hi == x[2] - y[2] + H - 1 + (lo \div H)
    IN  <<lo % H, hi % H>>

\* low and high 16 bits of the product of two 16-bit numbers
MulLo16(a, b) ==
    LET p == a * (b % 256)
        q == a * (b \div 256)
    IN  (p + 256 * (q % 256)) % H

MulHi16(a, b) ==
    LET p == a * (b % 256)
        q == a * (b \div 256)
    IN  ((p + 256 * (q % 256)) \div H) + (q \div 256)

\* uint32_t * uint32_t, wrapping
Mul32(x, y) ==
    LET lo == MulLo16(x[1], y[1])
        hi == MulHi16(x[1], y[1]) + MulLo16(x[1], y[2]) + MulLo16(x[2], y[1])
    IN  <<lo, hi % H>>

\* bitwise operators on n-bit numbers
RECURSIVE BitAnd(_, _, _)
BitAnd(x, y, n) ==
    IF n = 0 THEN 0
    ELSE (x % 2) * (y % 2) + 2 * BitAnd(x \div 2, y \div 2, n - 1)

RECURSIVE BitOr(_, _, _)
BitOr(x, y, n) ==
    IF n = 0 THEN 0
    ELSE (IF (x % 2) + (y % 2) > 0 THEN 1 ELSE 0)
         + 2 * BitOr(x \div 2, y \div 2, n - 1)

RECURSIVE BitXor(_, _, _)
BitXor(x, y, n) ==
    IF n = 0 THEN 0
    ELSE ((x + y) % 2) + 2 * BitXor(x \div 2, y \div 2, n - 1)

\* the bitwise operators on 4-bit and on 8-bit numbers, tabulated
AndNib == [a \in 0..15 |-> [b \in 0..15 |-> BitAnd(a, b, 4)]]
OrNib  == [a \in 0..15 |-> [b \in 0..15 |-> BitOr(a, b, 4)]]
XorNib == [a \in 0..15 |-> [b \in 0..15 |-> BitXor(a, b, 4)]]

ByteTab(nib) ==
    [a \in 0..255 |-> [b \in 0..255 |->
        nib[a % 16][b % 16] + 16 * nib[a \div 16][b \div 16]]]

AndTab == ByteTab(AndNib)
OrTab  == ByteTab(OrNib)
XorTab == ByteTab(XorNib)

\* a bitwise operator on 16-bit numbers, byte by byte
Bytewise(tab, x, y) ==
    tab[x % 256][y % 256] + 256 * tab[x \div 256][y \div 256]

And32(x, y) == <<Bytewise(AndTab, x[1], y[1]), Bytewise(AndTab, x[2], y[2])>>
Or32(x, y)  == <<Bytewise(OrTab, x[1], y[1]), Bytewise(OrTab, x[2], y[2])>>
Xor32(x, y) == <<Bytewise(XorTab, x[1], y[1]), Bytewise(XorTab, x[2], y[2])>>
Not32(x)    == <<H - 1 - x[1], H - 1 - x[2]>>

\* a << n on uint32_t, 0 <= n <= 32 (32: see Shr32)
Shl32(x, n) ==
    IF n >= 32 THEN Zero32
    ELSE IF n >= 16
    THEN <<0, (x[1] * Pow2(n - 16)) % H>>
    ELSE <<(x[1] * Pow2(n)) % H,
           ((x[2] * Pow2(n)) % H) + (x[1] \div Pow2(16 - n))>>

\* a >> n on uint32_t, 0 <= n <= 32.  The count 32 (rotl32/rotr32 with
\* n = 0) is a shift by the width of the type; every result a build
\* gives for it (all bits shifted out, or the count taken modulo 32) is
\* OR-ed with the unshifted a, so both give the same rotation: a.
Shr32(x, n) ==
    IF n >= 32 THEN Zero32
    ELSE IF n >= 16
    THEN <<x[2] \div Pow2(n - 16), 0>>
    ELSE <<(x[1] \div Pow2(n)) + (x[2] % Pow2(n)) * Pow2(16 - n),
           x[2] \div Pow2(n)>>

\* conversion of a uint32_t argument to a uint8_t parameter
ToU8(x) == x[1] % 256

\* ------------------------------------------------------------------------
\* class RC6: constants and helpers
\* ------------------------------------------------------------------------

\* 0xB7E15163
P32 == <<20835, 47073>>
\* 0x9E3779B9
Q32 == <<31161, 40503>>
LG_W == 5

rotl32(a, n8) ==
    LET n == AndTab[n8][31]
    IN  Or32(Shl32(a, n), Shr32(a, 32 - n))

rotr32(a, n8) ==
    LET n == AndTab[n8][31]
    IN  Or32(Shr32(a, n), Shl32(a, 32 - n))

\* The statements of a loop run in order: `first` (the state after the
\* earlier passes) is evaluated before `rest` (the later passes applied to it).
InOrder(first, rest) == IF first = first THEN rest ELSE first

\* x[k] of a zero-based C++ array or std::vector held as a sequence
At(x, k) == x[k + 1]

\* the null pointer
NULL == "nullptr"

\* f(x) = x * (2 * x + 1) on uint32_t
F32(x) == Mul32(x, Add32(Mul32(U32(2), x), U32(1)))

\* RC6::RC6(): the default constructor
RC6Default == [thrown |-> "none", rounds_ |-> 20]

\* RC6::RC6(rounds): the rounds_ of the object, or the exception
RC6(rounds) ==
    IF rounds > 125
    THEN [thrown |-> "invalid_argument", rounds_ |-> rounds]
    ELSE [thrown |-> "none", rounds_ |-> rounds]

\* (faulty variant) a table of four words taken for an empty one
isInitialized_four(round_keys_) == Len(round_keys_) > 4

\* bool RC6::isInitialized() const
isInitialized(round_keys_) == round_keys_ # <<>>

\* uint16_t c: the number of 32-bit words of the key
KeyWordCount(keylength_bits) ==
    (keylength_bits \div 32) + (IF keylength_bits % 32 # 0 THEN 1 ELSE 0)

\* for (uint16_t i = 0; i < keylength_bits / 8; ++i)
\*     key_words[i / 4] |= static_cast<uint32_t>(key_bytes[i]) << (8 * (i % 4)):
\* the passes i = lo .. hi - 1, the range halved as in MixLoop
RECURSIVE LoadKeyBytes(_, _, _, _)
LoadKeyBytes(key_words, key_bytes, lo, hi) ==
    IF hi <= lo THEN key_words
    ELSE IF hi = lo + 1
    THEN [key_words EXCEPT ![(lo \div 4) + 1] =
            Or32(@, Shl32(U32(At(key_bytes, lo)), 8 * (lo % 4)))]
    ELSE LET mid  == (lo + hi) \div 2
             left == LoadKeyBytes(key_words, key_bytes, lo, mid)
         IN  InOrder(left, LoadKeyBytes(left, key_bytes, mid, hi))

\* key_words[c - 1] &= ~(0xFF << (8 * (keylength_bits / 8 % 4)))
\* (0xFF << 24 is the int with the bits 0xFF000000, so the mask has the
\* bits 0x00FFFFFF; the byte it clears is one the byte loop never loaded)
MaskKeyWords(key_words, c, keylength_bits) ==
    IF keylength_bits % 32 # 0 /\ keylength_bits % 8 > 0
    THEN [key_words EXCEPT ![c] =
            And32(@, Not32(Shl32(U32(255), 8 * ((keylength_bits \div 8) % 4))))]
    ELSE key_words

\* (faulty variant) the partial last byte loaded too, masked to the bits supplied
KeyWords_bitmask(key_bytes, keylength_bits) ==
    LET c    == KeyWordCount(keylength_bits)
        n    == keylength_bits \div 8
        rem  == keylength_bits % 8
        full == LoadKeyBytes([k \in 1..c |-> Zero32], key_bytes, 0, n)
    IN  IF rem = 0 THEN full
        ELSE [full EXCEPT ![c] =
                Or32(@, Shl32(U32(At(key_bytes, n) % Pow2(rem)), 8 * (n % 4)))]

\* std::vector<uint32_t> key_words(c, 0), the byte loop and the masking
KeyWords(key_bytes, keylength_bits) ==
    LET c == KeyWordCount(keylength_bits)
    IN  MaskKeyWords(
            LoadKeyBytes([k \in 1..c |-> Zero32], key_bytes, 0,
                         keylength_bits \div 8),
            c, keylength_bits)

\* std::vector::resize(n): keeps the elements it has, value-initializes new ones
Resize(v, n) == [k \in 1..n |-> IF k <= Len(v) THEN v[k] ELSE Zero32]

\* for (uint16_t i = 1; i < key_size; ++i) round_keys_[i] = round_keys_[i-1] + Q32:
\* the passes i = lo .. hi - 1, the range halved as in MixLoop
RECURSIVE SeedLoop(_, _, _)
SeedLoop(S, lo, hi) ==
    IF hi <= lo THEN S
    ELSE IF hi = lo + 1 THEN [S EXCEPT ![lo + 1] = Add32(At(S, lo - 1), Q32)]
    ELSE LET mid  == (lo + hi) \div 2
             left == SeedLoop(S, lo, mid)
         IN  InOrder(left, SeedLoop(left, mid, hi))

\* (faulty variant) the table seeded only when it is newly allocated
SeedRoundKeys_once(round_keys_, key_size) ==
    IF round_keys_ = <<>>
    THEN SeedLoop([Resize(round_keys_, key_size) EXCEPT ![1] = P32], 1, key_size)
    ELSE Resize(round_keys_, key_size)

\* round_keys_.resize(key_size); round_keys_[0] = P32; and the seeding loop
SeedRoundKeys(round_keys_, key_size) ==
    SeedLoop([Resize(round_keys_, key_size) EXCEPT ![1] = P32], 1, key_size)

\* one pass of the mixing loop's body
MixStep(m, key_size, c) ==
    LET a  == rotl32(Add32(Add32(At(m.S, m.i), m.a), m.b), 3)
        ab == Add32(a, m.b)
        b  == rotl32(Add32(Add32(At(m.L, m.j), a), m.b),
                     ToU8(And32(ab, U32(31))))
    IN  [S |-> [m.S EXCEPT ![m.i + 1] = a],
         L |-> [m.L EXCEPT ![m.j + 1] = b],
         a |-> a, b |-> b,
         i |-> (m.i + 1) % key_size,
         j |-> (m.j + 1) % c]

\* for (uint16_t p = 0; p < v; ++p) { ... }: the passes p = lo .. hi - 1 of
\* the loop, the range halved so that the evaluation stays shallow (p counts
\* 0, 1, .. up to the uint16_t v and cannot wrap before it reaches v)
RECURSIVE MixLoop(_, _, _, _, _)
MixLoop(m, lo, hi, key_size, c) ==
    IF hi <= lo THEN m
    ELSE IF hi = lo + 1 THEN MixStep(m, key_size, c)
    ELSE LET mid  == (lo + hi) \div 2
             left == MixLoop(m, lo, mid, key_size, c)
         IN  InOrder(left, MixLoop(left, mid, hi, key_size, c))

Max(x, y) == IF x < y THEN y ELSE x

\* (faulty variant) std::min in place of std::max
MixCount_min(c, key_size) == (3 * (IF c < key_size THEN c ELSE key_size)) % H

\* const uint16_t v = 3 * std::max(c, key_size)
MixCount(c, key_size) == (3 * Max(c, key_size)) % H

\* (faulty variant) the two words of the final whitening forgotten
KeySize_short(rounds_) == (2 * rounds_ + 2) % H

\* const uint16_t key_size = 2 * rounds_ + 4
KeySize(rounds_) == (2 * rounds_ + 4) % H

\* (faulty variant) the table released before the arguments are validated
init_release(rounds_, round_keys_, key, key_bytes, keylength_bits) ==
    IF key = NULL \/ keylength_bits = 0 \/ rounds_ > 125
    THEN [thrown |-> "invalid_argument", round_keys_ |-> <<>>]
    ELSE LET c        == KeyWordCount(keylength_bits)
             key_size == KeySize(rounds_)
             m == MixLoop([S |-> SeedRoundKeys(<<>>, key_size),
                           L |-> KeyWords(key_bytes, keylength_bits),
                           a |-> Zero32, b |-> Zero32, i |-> 0, j |-> 0],
                          0, MixCount(c, key_size), key_size, c)
         IN  [thrown |-> "none", round_keys_ |-> m.S]

\* void RC6::init(const void *key, uint16_t keylength_bits): the exception
\* thrown and round_keys_ after the call (key_bytes: the memory key points to)
init(rounds_, round_keys_, key, key_bytes, keylength_bits) ==
    IF key = NULL \/ keylength_bits = 0 \/ rounds_ > 125
    THEN [thrown |-> "invalid_argument", round_keys_ |-> round_keys_]
    ELSE LET c        == KeyWordCount(keylength_bits)
             key_size == KeySize(rounds_)
             m == MixLoop([S |-> SeedRoundKeys(round_keys_, key_size),
                           L |-> KeyWords(key_bytes, keylength_bits),
                           a |-> Zero32, b |-> Zero32, i |-> 0, j |-> 0],
                          0, MixCount(c, key_size), key_size, c)
         IN  [thrown |-> "none", round_keys_ |-> m.S]

\* auto *data = static_cast<uint32_t *>(block); data[k], little-endian host
Load32(block, k) ==
    <<At(block, 4 * k) + 256 * At(block, 4 * k + 1),
      At(block, 4 * k + 2) + 256 * At(block, 4 * k + 3)>>

LoadBlock(block) == [k \in 1..4 |-> Load32(block, k - 1)]

\* data[0] = a; data[1] = b; data[2] = c; data[3] = d
StoreBlock(r) ==
    [n \in 1..16 |->
        LET w == r[((n - 1) \div 4) + 1]
            h == w[(((n - 1) % 4) \div 2) + 1]
        IN  IF (n - 1) % 2 = 0 THEN h % 256 ELSE h \div 256]

\* the body of encrypt's round loop, r = <<a, b, c, d>>
EncRound(S, i, r) ==
    LET t == rotl32(F32(r[2]), LG_W)
        u == rotl32(F32(r[4]), LG_W)
        a == Add32(rotl32(Xor32(r[1], t), ToU8(u)), At(S, 2 * i))
        c == Add32(rotl32(Xor32(r[3], u), ToU8(t)), At(S, 2 * i + 1))
    IN  <<r[2], c, r[4], a>>

\* for (size_t i = 1; i <= rounds_; ++i) { ... }: the passes i = lo .. hi,
\* the range halved as in MixLoop
RECURSIVE EncLoop(_, _, _, _)
EncLoop(S, r, lo, hi) ==
    IF hi < lo THEN r
    ELSE IF hi = lo THEN EncRound(S, lo, r)
    ELSE LET mid  == (lo + hi) \div 2
             left == EncLoop(S, r, lo, mid)
         IN  InOrder(left, EncLoop(S, left, mid + 1, hi))

\* b += round_keys_[0]; d += round_keys_[1]
EncPre(S, r) == <<r[1], Add32(r[2], At(S, 0)), r[3], Add32(r[4], At(S, 1))>>

\* a += round_keys_[2 * rounds_ + 2]; c += round_keys_[2 * rounds_ + 3]
EncPost(S, r, rounds_) ==
    <<Add32(r[1], At(S, 2 * rounds_ + 2)), r[2],
      Add32(r[3], At(S, 2 * rounds_ + 3)), r[4]>>

\* (faulty variant) the block checked before the initialization
encrypt_nullfirst(rounds_, round_keys_, block, buf) ==
    IF block = NULL
    THEN [thrown |-> "invalid_argument", buf |-> buf]
    ELSE IF ~isInitialized(round_keys_)
    THEN [thrown |-> "runtime_error", buf |-> buf]
    ELSE [thrown |-> "none",
          buf |-> StoreBlock(
                     EncPost(round_keys_,
                             EncLoop(round_keys_,
                                     EncPre(round_keys_, LoadBlock(buf)),
                                     1, rounds_),
                             rounds_))]

\* void RC6::encrypt(void *block) const: the exception thrown and the bytes
\* of the caller's buffer after the call (buf: the buffer block points to)
encrypt(rounds_, round_keys_, block, buf) ==
    IF ~isInitialized(round_keys_)
    THEN [thrown |-> "runtime_error", buf |-> buf]
    ELSE IF block = NULL
    THEN [thrown |-> "invalid_argument", buf |-> buf]
    ELSE [thrown |-> "none",
          buf |-> StoreBlock(
                     EncPost(round_keys_,
                             EncLoop(round_keys_,
                                     EncPre(round_keys_, LoadBlock(buf)),
                                     1, rounds_),
                             rounds_))]

\* (faulty variant) t and u taken from the registers before they are rotated
DecRound_preswap(S, i, r) ==
    LET u  == rotl32(F32(r[4]), LG_W)
        t  == rotl32(F32(r[2]), LG_W)
        c  == Xor32(rotr32(Sub32(r[2], At(S, 2 * i + 1)), ToU8(t)), u)
        a  == Xor32(rotr32(Sub32(r[4], At(S, 2 * i)), ToU8(u)), t)
    IN  <<a, r[1], c, r[3]>>

\* the body of decrypt's round loop, r = <<a, b, c, d>>
DecRound(S, i, r) ==
    LET a0 == r[4]
        d0 == r[3]
        c0 == r[2]
        b0 == r[1]
        u  == rotl32(F32(d0), LG_W)
        t  == rotl32(F32(b0), LG_W)
        c  == Xor32(rotr32(Sub32(c0, At(S, 2 * i + 1)), ToU8(t)), u)
        a  == Xor32(rotr32(Sub32(a0, At(S, 2 * i)), ToU8(u)), t)
    IN  <<a, b0, c, d0>>

\* for (uint8_t i = rounds_; i > 0; --i) { ... }: the passes i = hi down to
\* lo, the range halved as in MixLoop
RECURSIVE DecLoop(_, _, _, _)
DecLoop(S, r, hi, lo) ==
    IF hi < lo THEN r
    ELSE IF hi = lo THEN DecRound(S, hi, r)
    ELSE LET mid   == (lo + hi) \div 2
             upper == DecLoop(S, r, hi, mid + 1)
         IN  InOrder(upper, DecLoop(S, upper, mid, lo))

\* c -= round_keys_[2 * rounds_ + 3]; a -= round_keys_[2 * rounds_ + 2]
DecPre(S, r, rounds_) ==
    <<Sub32(r[1], At(S, 2 * rounds_ + 2)), r[2],
      Sub32(r[3], At(S, 2 * rounds_ + 3)), r[4]>>

\* d -= round_keys_[1]; b -= round_keys_[0]
DecPost(S, r) == <<r[1], Sub32(r[2], At(S, 0)), r[3], Sub32(r[4], At(S, 1))>>

\* void RC6::decrypt(void *block) const
decrypt(rounds_, round_keys_, block, buf) ==
    IF ~isInitialized(round_keys_)
    THEN [thrown |-> "runtime_error", buf |-> buf]
    ELSE IF block = NULL
    THEN [thrown |-> "invalid_argument", buf |-> buf]
    ELSE [thrown |-> "none",
          buf |-> StoreBlock(
                     DecPost(round_keys_,
                             DecLoop(round_keys_,
                                     DecPre(round_keys_, LoadBlock(buf), rounds_),
                                     rounds_, 1)))]

\* ------------------------------------------------------------------------
\* The calls of a program on one RC6 object
\* ------------------------------------------------------------------------

VARIABLES
    rounds_,      \* RC6::rounds_
    round_keys_,  \* RC6::round_keys_
    buf,          \* the caller's 16-byte buffer, passed as `block`
    call,         \* the last call: its arguments, its outcome, the state before it
    keyed,        \* the arguments of the last init that returned normally
    inits,        \* how many init calls returned normally (ok), how many threw
    pending,      \* <<x>> when the previous call was an encrypt that turned x
                  \* into buf, <<>> otherwise
    ncalls,       \* the number of calls made so far
    threads,      \* per thread: the call it makes, where it is in it
    frames,       \* per call frame: the automatic variables a, b, c, d and i
    blocks,       \* per thread: the 16-byte buffer it passes as `block`
    loop          \* a call followed statement by statement: its counters and
                  \* the table elements its last statement accessed

\* the object and what is recorded about the calls of a single thread
svars == <<rounds_, round_keys_, buf, call, keyed, inits, pending, ncalls>>

\* the threads calling into one object
cvars == <<threads, frames, blocks>>

vars == <<svars, cvars, loop>>

\* the longest history of calls explored
MaxCalls == 3

\* the vectors of the test suite: plaintexts, keys, expected ciphertexts
plaintext1 == [k \in 1..16 |-> 0]
plaintext2 == <<2, 19, 36, 53, 70, 87, 104, 121, 138, 155, 172, 189, 206, 223, 224, 241>>
key1 == [k \in 1..16 |-> 0]
key2 == <<1, 35, 69, 103, 137, 171, 205, 239, 1, 18, 35, 52, 69, 86, 103, 120>>
key3 == [k \in 1..24 |-> 0]
key4 == <<1, 35, 69, 103, 137, 171, 205, 239, 1, 18, 35, 52, 69, 86, 103, 120, 137, 154, 171, 188, 205, 222, 239, 240>>
key5 == [k \in 1..32 |-> 0]
key6 == <<1, 35, 69, 103, 137, 171, 205, 239, 1, 18, 35, 52, 69, 86, 103, 120, 137, 154, 171, 188, 205, 222, 239, 240, 16, 50, 84, 118, 152, 186, 220, 254>>
expectedCiphertext1 == <<143, 195, 165, 54, 86, 177, 247, 120, 193, 41, 223, 78, 152, 72, 164, 30>>
expectedCiphertext2 == <<82, 78, 25, 47, 71, 21, 198, 35, 31, 81, 246, 54, 126, 164, 63, 24>>
expectedCiphertext3 == <<108, 214, 27, 203, 25, 11, 48, 56, 78, 138, 63, 22, 134, 144, 174, 130>>
expectedCiphertext4 == <<104, 131, 41, 208, 25, 229, 5, 4, 30, 82, 233, 42, 249, 82, 145, 212>>
expectedCiphertext5 == <<143, 95, 189, 5, 16, 209, 95, 168, 147, 250, 63, 218, 110, 133, 126, 194>>
expectedCiphertext6 == <<200, 36, 24, 22, 240, 215, 228, 137, 32, 173, 22, 161, 103, 78, 93, 72>>

\* a key argument: the pointer, the memory it refers to, the length passed
Key(bytes, bits) == [key |-> "key", bytes |-> bytes, bits |-> bits]

\* runTestCase(name, plaintext, key, keyLengthBits, expectedCiphertext)
TestCases ==
    {[plaintext |-> plaintext1, key |-> Key(key1, 128), expected |-> expectedCiphertext1],
     [plaintext |-> plaintext2, key |-> Key(key2, 128), expected |-> expectedCiphertext2],
     [plaintext |-> plaintext1, key |-> Key(key3, 192), expected |-> expectedCiphertext3],
     [plaintext |-> plaintext2, key |-> Key(key4, 192), expected |-> expectedCiphertext4],
     [plaintext |-> plaintext1, key |-> Key(key5, 256), expected |-> expectedCiphertext5],
     [plaintext |-> plaintext2, key |-> Key(key6, 256), expected |-> expectedCiphertext6]}

\* 16-byte blocks the caller starts from
Blocks == {plaintext1, plaintext2}

\* keys given to init: two that it takes, two that it refuses
GoodKeys == {Key(<<90>>, 8), Key(key2, 128)}
BadKeys  == {[key |-> NULL, bytes |-> <<>>, bits |-> 8],
             [key |-> "key", bytes |-> <<90>>, bits |-> 0]}
KeyArgs == GoodKeys \cup BadKeys

\* arguments given to the constructor (uint8_t)
RoundArgs == {0, 1, 2, 126, 255}

NoCall == [op |-> "none", key |-> NULL, bytes |-> <<>>, bits |-> 0,
           block |-> NULL, thrown |-> "none", ret |-> FALSE,
           keys_before |-> <<>>, buf_before |-> <<>>, rounds_before |-> 0,
           plain |-> <<>>]

NoKey == [bytes |-> <<>>, bits |-> 0]

\* no call is being followed statement by statement
NoLoop == [fn |-> "none", pc |-> "none", rounds |-> 0, bits |-> 0,
           i |-> 0, j |-> 0, p |-> 0, passes |-> 0, wrapped |-> FALSE,
           acc |-> {}]

\* after RC6 rc6(r) returned normally for an r of RArgs, the buffer filled
Constructed(RArgs, Bufs) ==
    /\ rounds_ \in {RC6(r).rounds_ : r \in {x \in RArgs : RC6(x).thrown = "none"}}
    /\ round_keys_ = <<>>
    /\ buf \in Bufs
    /\ call = NoCall
    /\ keyed = NoKey
    /\ inits = [ok |-> 0, failed |-> 0]
    /\ pending = <<>>
    /\ ncalls = 0
    /\ threads = <<>>
    /\ frames = <<>>
    /\ blocks = <<>>
    /\ loop = NoLoop

Called(op) == [NoCall EXCEPT !.op = op, !.keys_before = round_keys_,
                             !.buf_before = buf, !.rounds_before = rounds_]

\* rc6.init(key, keylength_bits)
CallInit(k) ==
    \E r \in {init(rounds_, round_keys_, k.key, k.bytes, k.bits)} :
        /\ ncalls < MaxCalls
        /\ round_keys_' = r.round_keys_
        /\ call' = [Called("init") EXCEPT !.key = k.key, !.bytes = k.bytes,
                                          !.bits = k.bits, !.thrown = r.thrown]
        /\ keyed' = IF r.thrown = "none"
                    THEN [bytes |-> k.bytes, bits |-> k.bits] ELSE keyed
        /\ inits' = IF r.thrown = "none"
                    THEN [inits EXCEPT !.ok = @ + 1]
                    ELSE [inits EXCEPT !.failed = @ + 1]
        /\ pending' = <<>>
        /\ ncalls' = ncalls + 1
        /\ UNCHANGED <<rounds_, buf, cvars, loop>>

\* rc6.encrypt(block)
CallEncrypt(block) ==
    \E r \in {encrypt(rounds_, round_keys_, block, buf)} :
        /\ ncalls < MaxCalls
        /\ buf' = r.buf
        /\ call' = [Called("encrypt") EXCEPT !.block = block, !.thrown = r.thrown]
        /\ pending' = IF r.thrown = "none" THEN <<buf>> ELSE <<>>
        /\ ncalls' = ncalls + 1
        /\ UNCHANGED <<rounds_, round_keys_, keyed, inits, cvars, loop>>

\* (faulty variant) decrypt releasing the round keys once it has used them
CallDecrypt_release(block) ==
    \E r \in {decrypt(rounds_, round_keys_, block, buf)} :
        /\ ncalls < MaxCalls
        /\ buf' = r.buf
        /\ call' = [Called("decrypt") EXCEPT !.block = block, !.thrown = r.thrown,
                        !.plain = IF r.thrown = "none" THEN pending ELSE <<>>]
        /\ pending' = <<>>
        /\ ncalls' = ncalls + 1
        /\ round_keys_' = IF r.thrown = "none" THEN <<>> ELSE round_keys_
        /\ UNCHANGED <<rounds_, keyed, inits, cvars, loop>>

\* rc6.decrypt(block)
CallDecrypt(block) ==
    \E r \in {decrypt(rounds_, round_keys_, block, buf)} :
        /\ ncalls < MaxCalls
        /\ buf' = r.buf
        /\ call' = [Called("decrypt") EXCEPT !.block = block, !.thrown = r.thrown,
                        !.plain = IF r.thrown = "none" THEN pending ELSE <<>>]
        /\ pending' = <<>>
        /\ ncalls' = ncalls + 1
        /\ UNCHANGED <<rounds_, round_keys_, keyed, inits, cvars, loop>>

\* rc6.isInitialized()
CallIsInitialized ==
    /\ ncalls < MaxCalls
    /\ call' = [Called("isInitialized") EXCEPT !.ret = isInitialized(round_keys_)]
    /\ pending' = <<>>
    /\ ncalls' = ncalls + 1
    /\ UNCHANGED <<rounds_, round_keys_, buf, keyed, inits, cvars, loop>>

\* Any program: an object constructed, then any calls in any order
Init == Constructed(RoundArgs, Blocks)

Next ==
    \/ \E k \in KeyArgs : CallInit(k)
    \/ \E b \in {"buf", NULL} : CallEncrypt(b)
    \/ \E b \in {"buf", NULL} : CallDecrypt(b)
    \/ CallIsInitialized

Spec == Init /\ [][Next]_vars

\* The test suite: runTestCase with the default 20 rounds on the vectors, and
\* the custom-rounds test (init, encrypt, decrypt) with every round count
CustomKeys == {Key(key1, 128), Key(<<90>>, 8), Key(<<1, 35, 69, 103, 137>>, 40)}

TestKeys(r) ==
    IF r = RC6Default.rounds_
    THEN {t.key : t \in TestCases} \cup CustomKeys
    ELSE CustomKeys

InitTest == Constructed(0..255, Blocks)

NextTest ==
    \/ \E k \in TestKeys(rounds_) : call.op = "none" /\ CallInit(k)
    \/ call.op = "init" /\ CallEncrypt("buf")
    \/ call.op = "encrypt" /\ CallDecrypt("buf")

SpecTest == InitTest /\ [][NextTest]_vars

\* Keys of every length: init(key, bits) on a fresh object for every
\* bits in 1 .. MaxKeyBits and for the longest length a uint16_t holds
MaxKeyBits == 40

LongestKeyBits == 65535

BytesFor(bits) == (bits + 7) \div 8

\* key memory of the bytes needed for `bits` bits, filled with a pattern
PatternKey(mul, add, bits) ==
    Key([k \in 1..BytesFor(bits) |-> (mul * k + add) % 256], bits)

LengthKeys ==
    {PatternKey(0, 255, bits) : bits \in (1..MaxKeyBits) \cup {LongestKeyBits}}
    \cup {PatternKey(37, 129, bits) : bits \in 1..MaxKeyBits}

InitKey == Constructed({0, 1}, {plaintext1})

NextKey == \E k \in LengthKeys : call.op = "none" /\ CallInit(k)

SpecKey == InitKey /\ [][NextKey]_vars

\* ------------------------------------------------------------------------
\* Threads calling encrypt and decrypt on one initialized object
\* ------------------------------------------------------------------------

\* the number of threads
NThreads == 2

Threads == 1..NThreads

\* the rounds of the objects the threads share
ThreadRounds == {0, 2}

\* the key the shared object was given
ThreadKeys == {Key(key2, 128)}

\* (faulty variant) a, b, c, d and i kept in the object: one frame for every call
Locals_member(t) == 1

\* a, b, c, d and i are automatic variables: each call has its own frame
Locals(t) == t

NoFrame == [r |-> <<Zero32, Zero32, Zero32, Zero32>>, i |-> 0]

\* after init(k) returned on the object, before the threads start: each
\* thread has its own buffer and is about to call encrypt or decrypt on it
InitThreads ==
    /\ rounds_ \in {RC6(r).rounds_ : r \in ThreadRounds}
    /\ \E k \in ThreadKeys :
          /\ round_keys_ = init(rounds_, <<>>, k.key, k.bytes, k.bits).round_keys_
          /\ keyed = [bytes |-> k.bytes, bits |-> k.bits]
          /\ call = [NoCall EXCEPT !.op = "init", !.key = k.key,
                                   !.bytes = k.bytes, !.bits = k.bits]
    /\ inits = [ok |-> 1, failed |-> 0]
    /\ buf = plaintext1
    /\ pending = <<>>
    /\ ncalls = 1
    /\ blocks \in [Threads -> Blocks]
    /\ threads \in [Threads -> {[op |-> o, block |-> "buf", pc |-> "call",
                                 thrown |-> "none", input |-> <<>>] :
                                    o \in {"encrypt", "decrypt"}}]
    /\ frames = [t \in Threads |-> NoFrame]
    /\ loop = NoLoop

\* if (!isInitialized()) throw ...; if (block == nullptr) throw ...;
\* a = data[0]; b = data[1]; c = data[2]; d = data[3]
TEnter(t) ==
    /\ threads[t].pc = "call"
    /\ IF ~isInitialized(round_keys_)
       THEN /\ threads' = [threads EXCEPT ![t].pc = "done",
                                          ![t].thrown = "runtime_error"]
            /\ UNCHANGED frames
       ELSE IF threads[t].block = NULL
       THEN /\ threads' = [threads EXCEPT ![t].pc = "done",
                                          ![t].thrown = "invalid_argument"]
            /\ UNCHANGED frames
       ELSE /\ threads' = [threads EXCEPT ![t].pc = "pre",
                                          ![t].input = blocks[t]]
            /\ frames' = [frames EXCEPT ![Locals(t)].r = LoadBlock(blocks[t])]
    /\ UNCHANGED <<svars, blocks, loop>>

\* the whitening before the rounds, and the loop's initialization
TPre(t) ==
    /\ threads[t].pc = "pre"
    /\ frames' = [frames EXCEPT ![Locals(t)] =
            IF threads[t].op = "encrypt"
            THEN [r |-> EncPre(round_keys_, @.r), i |-> 1]
            ELSE [r |-> DecPre(round_keys_, @.r, rounds_), i |-> rounds_ % 256]]
    /\ threads' = [threads EXCEPT ![t].pc = "loop"]
    /\ UNCHANGED <<svars, blocks, loop>>

\* one test of the loop condition, and one pass of the body when it holds
TRound(t) ==
    /\ threads[t].pc = "loop"
    /\ LET f == frames[Locals(t)]
       IN  IF threads[t].op = "encrypt"
           THEN IF f.i <= rounds_
                THEN /\ frames' = [frames EXCEPT ![Locals(t)] =
                            [r |-> EncRound(round_keys_, f.i, f.r), i |-> f.i + 1]]
                     /\ UNCHANGED threads
                ELSE /\ threads' = [threads EXCEPT ![t].pc = "post"]
                     /\ UNCHANGED frames
           ELSE IF f.i > 0
                THEN /\ frames' = [frames EXCEPT ![Locals(t)] =
                            [r |-> DecRound(round_keys_, f.i, f.r),
                             i |-> (f.i + 255) % 256]]
                     /\ UNCHANGED threads
                ELSE /\ threads' = [threads EXCEPT ![t].pc = "post"]
                     /\ UNCHANGED frames
    /\ UNCHANGED <<svars, blocks, loop>>

\* the whitening after the rounds
TPost(t) ==
    /\ threads[t].pc = "post"
    /\ frames' = [frames EXCEPT ![Locals(t)].r =
            IF threads[t].op = "encrypt"
            THEN EncPost(round_keys_, @, rounds_)
            ELSE DecPost(round_keys_, @)]
    /\ threads' = [threads EXCEPT ![t].pc = "store"]
    /\ UNCHANGED <<svars, blocks, loop>>

\* data[0] = a; data[1] = b; data[2] = c; data[3] = d
TStore(t) ==
    /\ threads[t].pc = "store"
    /\ blocks' = [blocks EXCEPT ![t] = StoreBlock(frames[Locals(t)].r)]
    /\ threads' = [threads EXCEPT ![t].pc = "done"]
    /\ UNCHANGED <<svars, frames, loop>>

NextThreads ==
    \E t \in Threads : TEnter(t) \/ TPre(t) \/ TRound(t) \/ TPost(t) \/ TStore(t)

SpecThreads == InitThreads /\ [][NextThreads]_vars

\* ------------------------------------------------------------------------
\* The loops of init, encrypt and decrypt, statement by statement: the
\* counters with their C++ widths and the index of every table access.  The
\* words stored in the tables do not decide any index or loop condition and
\* are left out here.
\* ------------------------------------------------------------------------

\* (rounds, keylength_bits) followed: every length up to MaxKeyBits with a
\* few round counts, every round count with a 128-bit key, and the longest
\* key a uint16_t length allows
LoopCases ==
    ({0, 1, 2, 20, 125} \X (1..MaxKeyBits))
    \cup ((0..125) \X {128})
    \cup ({0, 125} \X {LongestKeyBits})

\* an access x[index] to a table of `size` elements
Access(table, index, size) == <<table, index, size>>

LoopC     == KeyWordCount(loop.bits)
LoopKeys  == KeySize(loop.rounds)

\* the object constructed, init(key, keylength_bits) entered with valid
\* arguments
InitLoops ==
    /\ \E rb \in LoopCases :
          /\ RC6(rb[1]).thrown = "none"
          /\ rounds_ = RC6(rb[1]).rounds_
          /\ loop = [NoLoop EXCEPT !.fn = "init", !.pc = "bytes",
                                   !.rounds = rb[1], !.bits = rb[2]]
    /\ round_keys_ = <<>>
    /\ buf = plaintext1
    /\ call = NoCall
    /\ keyed = NoKey
    /\ inits = [ok |-> 0, failed |-> 0]
    /\ pending = <<>>
    /\ ncalls = 0
    /\ threads = <<>>
    /\ frames = <<>>
    /\ blocks = <<>>

\* uint16_t ++
Inc16(x) == (x + 1) % H

\* for (uint16_t i = 0; i < keylength_bits / 8; ++i) key_words[i / 4] |= ...
LBytes ==
    /\ loop.pc = "bytes"
    /\ loop' = IF loop.i < loop.bits \div 8
               THEN [loop EXCEPT !.acc = {Access("key_words", loop.i \div 4, LoopC)},
                                 !.i = Inc16(loop.i),
                                 !.wrapped = @ \/ loop.i + 1 >= H]
               ELSE [loop EXCEPT !.pc = "mask", !.acc = {}]
    /\ UNCHANGED <<svars, cvars>>

\* if (keylength_bits % 32 != 0) { ... key_words[c - 1] &= ... }
LMask ==
    /\ loop.pc = "mask"
    /\ loop' = [loop EXCEPT !.pc = "seed0",
                    !.acc = IF loop.bits % 32 # 0 /\ loop.bits % 8 > 0
                            THEN {Access("key_words", LoopC - 1, LoopC)}
                            ELSE {}]
    /\ UNCHANGED <<svars, cvars>>

\* round_keys_.resize(key_size); round_keys_[0] = P32; i = 1
LSeed0 ==
    /\ loop.pc = "seed0"
    /\ loop' = [loop EXCEPT !.pc = "seed", !.i = 1,
                    !.acc = {Access("round_keys_", 0, LoopKeys)}]
    /\ UNCHANGED <<svars, cvars>>

\* for (uint16_t i = 1; i < key_size; ++i) round_keys_[i] = round_keys_[i - 1] + Q32
LSeed ==
    /\ loop.pc = "seed"
    /\ loop' = IF loop.i < LoopKeys
               THEN [loop EXCEPT !.acc = {Access("round_keys_", loop.i, LoopKeys),
                                          Access("round_keys_", loop.i - 1, LoopKeys)},
                                 !.i = Inc16(loop.i),
                                 !.wrapped = @ \/ loop.i + 1 >= H]
               ELSE [loop EXCEPT !.pc = "mix", !.acc = {},
                                 !.i = 0, !.j = 0, !.p = 0]
    /\ UNCHANGED <<svars, cvars>>

\* for (uint16_t p = 0; p < v; ++p) { round_keys_[i] ...; key_words[j] ...;
\*     i = (i + 1) % key_size; j = (j + 1) % c; }
LMix ==
    /\ loop.pc = "mix"
    /\ loop' = IF loop.p < MixCount(LoopC, LoopKeys)
               THEN [loop EXCEPT !.acc = {Access("round_keys_", loop.i, LoopKeys),
                                          Access("key_words", loop.j, LoopC)},
                                 !.i = (loop.i + 1) % LoopKeys,
                                 !.j = (loop.j + 1) % LoopC,
                                 !.p = Inc16(loop.p),
                                 !.passes = @ + 1,
                                 !.wrapped = @ \/ loop.p + 1 >= H]
               ELSE [loop EXCEPT !.pc = "ready", !.acc = {}]
    /\ UNCHANGED <<svars, cvars>>

\* init has returned; encrypt(block) or decrypt(block) is entered
LCall(fn) ==
    /\ loop.pc = "ready"
    /\ loop' = [loop EXCEPT !.fn = fn, !.pc = "pre", !.acc = {}]
    /\ UNCHANGED <<svars, cvars>>

\* the whitening before the rounds and the loop's initialization
LPre ==
    /\ loop.pc = "pre"
    /\ loop' = IF loop.fn = "encrypt"
               THEN [loop EXCEPT !.pc = "loop", !.i = 1,
                        !.acc = {Access("round_keys_", 0, LoopKeys),
                                 Access("round_keys_", 1, LoopKeys)}]
               ELSE [loop EXCEPT !.pc = "loop", !.i = loop.rounds % 256,
                        !.acc = {Access("round_keys_", 2 * loop.rounds + 3, LoopKeys),
                                 Access("round_keys_", 2 * loop.rounds + 2, LoopKeys)}]
    /\ UNCHANGED <<svars, cvars>>

\* for (size_t i = 1; i <= rounds_; ++i) { ... round_keys_[2 * i] ... }
\* for (uint8_t i = rounds_; i > 0; --i) { ... round_keys_[2 * i + 1] ... }
LRound ==
    /\ loop.pc = "loop"
    /\ loop' = IF loop.fn = "encrypt"
               THEN IF loop.i <= loop.rounds
                    THEN [loop EXCEPT !.i = @ + 1,
                            !.acc = {Access("round_keys_", 2 * loop.i, LoopKeys),
                                     Access("round_keys_", 2 * loop.i + 1, LoopKeys)}]
                    ELSE [loop EXCEPT !.pc = "post", !.acc = {}]
               ELSE IF loop.i > 0
                    THEN [loop EXCEPT !.i = (@ + 255) % 256,
                            !.wrapped = @ \/ loop.i - 1 < 0,
                            !.acc = {Access("round_keys_", 2 * loop.i + 1, LoopKeys),
                                     Access("round_keys_", 2 * loop.i, LoopKeys)}]
                    ELSE [loop EXCEPT !.pc = "post", !.acc = {}]
    /\ UNCHANGED <<svars, cvars>>

\* the whitening after the rounds
LPost ==
    /\ loop.pc = "post"
    /\ loop' = IF loop.fn = "encrypt"
               THEN [loop EXCEPT !.pc = "done",
                        !.acc = {Access("round_keys_", 2 * loop.rounds + 2, LoopKeys),
                                 Access("round_keys_", 2 * loop.rounds + 3, LoopKeys)}]
               ELSE [loop EXCEPT !.pc = "done",
                        !.acc = {Access("round_keys_", 1, LoopKeys),
                                 Access("round_keys_", 0, LoopKeys)}]
    /\ UNCHANGED <<svars, cvars>>

NextLoops ==
    \/ LBytes \/ LMask \/ LSeed0 \/ LSeed \/ LMix
    \/ \E fn \in {"encrypt", "decrypt"} : LCall(fn)
    \/ LPre \/ LRound \/ LPost

SpecLoops == InitLoops /\ [][NextLoops]_vars

\* ------------------------------------------------------------------------
\* Properties
\* ------------------------------------------------------------------------

\* C1 (inverse law): when decrypt follows encrypt on the same initialized
\* object and the same block, the block is again what it was before encrypt.
C1_InverseLaw ==
    (call.op = "decrypt" /\ call.thrown = "none" /\ call.plain # <<>>)
        => buf = call.plain[1]

\* a 125-round object, keyed with a 40-bit key, has encrypted x to something
\* else and decrypted it back
C1_Witness ==
    /\ call.op = "decrypt" /\ call.thrown = "none" /\ call.plain # <<>>
    /\ rounds_ = 125 /\ keyed.bits = 40
    /\ call.buf_before # call.plain[1]
    /\ buf = call.plain[1]

\* C2 (known-answer vectors): with the default 20 rounds, after init(key, bits)
\* of a vector of the test suite, encrypt turns its plaintext into its
\* expected ciphertext.
C2_KnownAnswers ==
    \A t \in TestCases :
        (/\ call.op = "encrypt" /\ call.thrown = "none"
         /\ rounds_ = RC6Default.rounds_
         /\ keyed = [bytes |-> t.key.bytes, bits |-> t.key.bits]
         /\ call.buf_before = t.plaintext)
            => buf = t.expected

\* the second vector of the suite has been encrypted
C2_Witness ==
    /\ call.op = "encrypt" /\ call.thrown = "none"
    /\ rounds_ = 20
    /\ keyed = [bytes |-> key2, bits |-> 128]
    /\ call.buf_before = plaintext2
    /\ buf = expectedCiphertext2

\* C3 (use before initialization): while no init has returned normally,
\* encrypt and decrypt throw std::runtime_error and leave the block as it was.
C3_UninitializedUse ==
    (call.op \in {"encrypt", "decrypt"} /\ inits.ok = 0)
        => (call.thrown = "runtime_error" /\ buf = call.buf_before)

\* decrypt was refused on an object that two init calls failed to key
C3_Witness ==
    /\ call.op = "decrypt" /\ inits = [ok |-> 0, failed |-> 2]
    /\ call.block = "buf"
    /\ call.thrown = "runtime_error" /\ buf = call.buf_before

\* C4 (refused init): init with a null key or a zero key length throws
\* std::invalid_argument and changes nothing: round_keys_ (empty or not),
\* rounds_ and the caller's buffer are what they were before the call.
C4_RefusedInit ==
    (call.op = "init" /\ (call.key = NULL \/ call.bits = 0))
        => /\ call.thrown = "invalid_argument"
           /\ round_keys_ = call.keys_before
           /\ rounds_ = call.rounds_before
           /\ buf = call.buf_before
           /\ (round_keys_ = <<>>) = (inits.ok = 0)

\* init with a null key was refused by an object that was already keyed
C4_Witness ==
    /\ call.op = "init" /\ call.key = NULL
    /\ call.thrown = "invalid_argument"
    /\ inits.ok > 0 /\ call.keys_before # <<>>
    /\ round_keys_ = call.keys_before

\* the round keys of a freshly constructed object after init(k)
Schedule(rounds, k) == init(rounds, <<>>, "key", k.bytes, k.bits).round_keys_

\* C5 (key-schedule determinism): once an init has returned normally,
\* round_keys_ is what a freshly constructed object with the same rounds
\* gets from the same (key, length), whatever calls came before; and encrypt
\* gives the ciphertext that fresh object gives.
C5_ScheduleDeterminism ==
    /\ keyed # NoKey => round_keys_ = Schedule(rounds_, keyed)
    /\ (call.op = "encrypt" /\ call.thrown = "none")
          => buf = encrypt(rounds_, Schedule(rounds_, keyed), "buf",
                           call.buf_before).buf

\* an object keyed twice, with different keys, has encrypted a block
C5_Witness ==
    /\ call.op = "encrypt" /\ call.thrown = "none"
    /\ inits.ok = 2
    /\ keyed = [bytes |-> <<90>>, bits |-> 8]
    /\ round_keys_ = Schedule(rounds_, keyed)
    /\ round_keys_ # Schedule(rounds_, Key(key2, 128))
    /\ buf # call.buf_before

\* C7 (lifecycle): round_keys_ is empty or has 2 * rounds_ + 4 words; it is
\* empty exactly while no init has returned normally; isInitialized() returns
\* whether it is non-empty; a call that finds it non-empty leaves it non-empty.
C7_Lifecycle ==
    /\ Len(round_keys_) \in {0, 2 * rounds_ + 4}
    /\ (round_keys_ = <<>>) = (inits.ok = 0)
    /\ call.op = "isInitialized" => call.ret = (round_keys_ # <<>>)
    /\ (call.op # "none" /\ call.keys_before # <<>>) => round_keys_ # <<>>

\* isInitialized() returned true on a keyed object of no rounds
C7_Witness ==
    /\ call.op = "isInitialized" /\ call.ret
    /\ rounds_ = 0 /\ Len(round_keys_) = 4 /\ inits.ok = 1

\* C8 (frame): no call changes rounds_, and only init changes round_keys_:
\* encrypt, decrypt and isInitialized leave both as they were, whether they
\* return or throw.
C8_Frame ==
    call.op # "none"
        => /\ rounds_ = call.rounds_before
           /\ call.op \in {"encrypt", "decrypt", "isInitialized"}
                 => round_keys_ = call.keys_before

\* decrypt changed the block of a keyed object and nothing of the object
C8_Witness ==
    /\ call.op = "decrypt" /\ call.thrown = "none"
    /\ buf # call.buf_before
    /\ round_keys_ # <<>> /\ round_keys_ = call.keys_before
    /\ rounds_ = call.rounds_before

\* byte k (from 0) of the key word sequence as C9 states it: key byte k for
\* k < floor(bits / 8), zero otherwise
StatedKeyByte(bytes, bits, k) == IF k < bits \div 8 THEN At(bytes, k) ELSE 0

StatedKeyWords(bytes, bits) ==
    [w \in 1..((bits + 31) \div 32) |->
        <<StatedKeyByte(bytes, bits, 4 * (w - 1))
            + 256 * StatedKeyByte(bytes, bits, 4 * (w - 1) + 1),
          StatedKeyByte(bytes, bits, 4 * (w - 1) + 2)
            + 256 * StatedKeyByte(bytes, bits, 4 * (w - 1) + 3)>>]

\* the key with every bit at position >= bits cleared (bit p of the key is
\* bit p mod 8 of byte p div 8)
ClearBeyond(bytes, bits) ==
    [k \in 1..Len(bytes) |->
        IF k - 1 < bits \div 8 THEN bytes[k]
        ELSE IF k - 1 = bits \div 8 THEN bytes[k] % Pow2(bits % 8)
        ELSE 0]

\* C9 (key loading): the key words mixed by init are ceil(bits/32) words
\* holding key byte i at bits 8*(i mod 4) .. of word i div 4 for
\* i < floor(bits/8) and zero elsewhere; so the round keys are those of the
\* key with every bit at position >= bits cleared.
C9_KeyLoading ==
    (call.op = "init" /\ call.thrown = "none")
        => /\ KeyWords(call.bytes, call.bits)
                = StatedKeyWords(call.bytes, call.bits)
           /\ round_keys_
                = Schedule(rounds_, Key(ClearBeyond(call.bytes, call.bits),
                                        call.bits))

\* init took a 30-bit key whose four bytes are all 0xFF
C9_Witness ==
    /\ call.op = "init" /\ call.thrown = "none"
    /\ call.bits = 30 /\ call.bytes = <<255, 255, 255, 255>>
    /\ ClearBeyond(call.bytes, call.bits) = <<255, 255, 255, 63>>
    /\ KeyWords(call.bytes, call.bits) = <<<<65535, 255>>>>
    /\ round_keys_ # <<>>

\* what thread t's call gives when it runs alone on its input block
Alone(t) ==
    IF threads[t].op = "encrypt"
    THEN encrypt(rounds_, round_keys_, "buf", threads[t].input)
    ELSE decrypt(rounds_, round_keys_, "buf", threads[t].input)

\* C6 (concurrent use after init): however the encrypt and decrypt calls of
\* several threads on one initialized object interleave, each on its own
\* block, a call that has returned has left in its block what the same call
\* leaves there when it runs alone, and the object is untouched.
C6_ConcurrentUse ==
    \A t \in DOMAIN threads :
        threads[t].pc = "done"
            => /\ threads[t].thrown = Alone(t).thrown
               /\ blocks[t] = Alone(t).buf
               /\ round_keys_ = Schedule(rounds_, keyed)

\* two calls, an encrypt and a decrypt of the same two-round object, have
\* both returned, and each changed its own block
C6_Witness ==
    /\ threads # <<>> /\ rounds_ = 2
    /\ threads[1].op = "encrypt" /\ threads[2].op = "decrypt"
    /\ \A t \in Threads : /\ threads[t].pc = "done"
                          /\ blocks[t] # threads[t].input
                          /\ blocks[t] = Alone(t).buf

\* C10 (index and counter safety): every table access of init, encrypt and
\* decrypt is below the table's size, no 16-bit or 8-bit counter wraps, in
\* the mixing loop i < 2*rounds+4 and j < c, v = 3*max(c, 2*rounds+4) fits
\* 16 bits, and the mixing loop has made exactly that many passes when init
\* returns.
C10_IndexSafety ==
    loop.fn # "none"
        => /\ \A a \in loop.acc : 0 <= a[2] /\ a[2] < a[3]
           /\ ~loop.wrapped
           /\ LoopC = (loop.bits + 31) \div 32
           /\ loop.pc = "mix" => loop.i < 2 * loop.rounds + 4 /\ loop.j < LoopC
           /\ 3 * Max(LoopC, 2 * loop.rounds + 4) < H
           /\ loop.passes <= 3 * Max(LoopC, 2 * loop.rounds + 4)
           /\ loop.pc \in {"ready", "pre", "loop", "post", "done"}
                 => loop.passes = 3 * Max(LoopC, 2 * loop.rounds + 4)
           /\ \A a \in loop.acc : a[1] = "round_keys_" => a[3] = 2 * loop.rounds + 4

\* decrypt has returned on a 125-round object keyed with 65535 bits, after
\* 6144 passes of the mixing loop; its last statement read round_keys_[0]
C10_Witness ==
    /\ loop.fn = "decrypt" /\ loop.pc = "done"
    /\ loop.rounds = 125 /\ loop.bits = 65535
    /\ loop.passes = 6144
    /\ Access("round_keys_", 0, 254) \in loop.acc

====
